---- MODULE Spec2Model ----
(***************************************************************************)
(* Model of the JSON external source: the filter sanitizer and evaluator   *)
(* (utils/deepint-sources), the DataSource query pipeline (source.ts) and  *)
(* the request handlers of the source controller (controllers/source.ts).  *)
(*                                                                         *)
(* JavaScript values are records [t, n, s, a, o]: t is the type tag, n the *)
(* number (the truth value 0/1 of a boolean, the milliseconds of a Date),  *)
(* s the UTF-16 code units of a string, a the elements of an array and o   *)
(* the own properties of an object as a sequence of <<name, value>> pairs. *)
(* Numbers are integers; strings are sequences of code units.              *)
(***************************************************************************)
EXTENDS Integers, Sequences, FiniteSets, TLC

(***************************************************************************)
(* JavaScript values                                                       *)
(***************************************************************************)
V(t, n, s) == [t |-> t, n |-> n, s |-> s, a |-> <<>>, o |-> <<>>]

Null == V("null", 0, <<>>)

Undefined == V("undefined", 0, <<>>)

NaN == V("nan", 0, <<>>)

Num(n) == V("number", n, <<>>)

Str(s) == V("string", 0, s)

Bool(b) == V("boolean", IF b THEN 1 ELSE 0, <<>>)

DateOf(ms) == V("date", ms, <<>>)

Arr(elems) == [t |-> "array", n |-> 0, s |-> <<>>, a |-> elems, o |-> <<>>]

Obj(props) == [t |-> "object", n |-> 0, s |-> <<>>, a |-> <<>>, o |-> props]

\* The code units of the words the program spells out.
Chars ==
  [ single |-> <<115, 105, 110, 103, 108, 101>>,
    one |-> <<111, 110, 101>>,
    anyof |-> <<97, 110, 121, 111, 102>>,
    allof |-> <<97, 108, 108, 111, 102>>,
    not |-> <<110, 111, 116>>,
    null |-> <<110, 117, 108, 108>>,
    eq |-> <<101, 113>>,
    lt |-> <<108, 116>>,
    le |-> <<108, 101>>,
    lte |-> <<108, 116, 101>>,
    gt |-> <<103, 116>>,
    ge |-> <<103, 101>>,
    gte |-> <<103, 116, 101>>,
    cn |-> <<99, 110>>,
    cni |-> <<99, 110, 105>>,
    sw |-> <<115, 119>>,
    swi |-> <<115, 119, 105>>,
    ew |-> <<101, 119>>,
    ewi |-> <<101, 119, 105>>,
    true |-> <<116, 114, 117, 101>>,
    false |-> <<102, 97, 108, 115, 101>>,
    undefined |-> <<117, 110, 100, 101, 102, 105, 110, 101, 100>>,
    NaN |-> <<78, 97, 78>>,
    asc |-> <<97, 115, 99>>,
    desc |-> <<100, 101, 115, 99>>,
    object |-> <<91, 111, 98, 106, 101, 99, 116, 32, 79, 98, 106, 101, 99, 116, 93>> ]

IsDigit(c) == c >= 48 /\ c <= 57

Min(x, y) == IF x < y THEN x ELSE y

Max(x, y) == IF x > y THEN x ELSE y

\* typeof v === "object": null, arrays, plain objects and Dates.
TypeofObject(v) == v.t \in {"null", "array", "object", "date"}

\* obj[name] of a value that is not null: an own property, or undefined.
Get(obj, name) ==
  IF \E i \in 1..Len(obj.o) : obj.o[i][1] = name
    THEN obj.o[CHOOSE i \in 1..Len(obj.o) :
                 obj.o[i][1] = name /\ \A j \in (i + 1)..Len(obj.o) : obj.o[j][1] # name][2]
    ELSE Undefined

RECURSIVE DigitsOf(_)
DigitsOf(n) == IF n < 10 THEN <<48 + n>> ELSE DigitsOf(n \div 10) \o <<48 + (n % 10)>>

NumberToString(n) == IF n < 0 THEN <<45>> \o DigitsOf(0 - n) ELSE DigitsOf(n)

\* "" + v (ToString). A Date prints in the
\* local time zone of the process; no string operation on a Date is drawn.
RECURSIVE JSToString(_)
RECURSIVE JoinElems(_, _)
JoinElems(elems, i) ==
  IF i > Len(elems) THEN <<>>
  ELSE (IF i > 1 THEN <<44>> ELSE <<>>)
       \o (IF elems[i].t \in {"null", "undefined"} THEN <<>> ELSE JSToString(elems[i]))
       \o JoinElems(elems, i + 1)

JSToString(v) ==
  CASE v.t = "null" -> Chars["null"]
    [] v.t = "undefined" -> Chars["undefined"]
    [] v.t = "nan" -> Chars["NaN"]
    [] v.t = "string" -> v.s
    [] v.t = "number" -> NumberToString(v.n)
    [] v.t = "boolean" -> IF v.n = 1 THEN Chars["true"] ELSE Chars["false"]
    [] v.t = "array" -> JoinElems(v.a, 1)
    [] v.t = "object" -> Chars["object"]

toLowerCase(s) == [i \in 1..Len(s) |-> IF s[i] >= 65 /\ s[i] <= 90 THEN s[i] + 32 ELSE s[i]]

substr(s, from, len) == SubSeq(s, from + 1, Min(Len(s), from + len))

startsWith(s, p) == Len(p) <= Len(s) /\ SubSeq(s, 1, Len(p)) = p

endsWith(s, p) == Len(p) <= Len(s) /\ SubSeq(s, Len(s) - Len(p) + 1, Len(s)) = p

includes(s, p) == \E k \in 0..(Len(s) - Len(p)) : SubSeq(s, k + 1, k + Len(p)) = p

RECURSIVE DigitsValue(_, _, _)
DigitsValue(s, i, acc) ==
  IF i > Len(s) THEN acc ELSE DigitsValue(s, i + 1, acc * 10 + (s[i] - 48))

\* Number(s) of a string of digits, "-" and letters: "" is 0, an optionally
\* signed run of digits is its value, anything else is NaN.
StringToNumber(s) ==
  IF s = <<>> THEN Num(0)
  ELSE IF \A i \in 1..Len(s) : IsDigit(s[i]) THEN Num(DigitsValue(s, 1, 0))
  ELSE IF s[1] = 45 /\ Len(s) > 1 /\ \A i \in 2..Len(s) : IsDigit(s[i])
    THEN Num(0 - DigitsValue(s, 2, 0))
  ELSE NaN

\* ToNumber of a primitive or a Date (a Date converts through valueOf).
ToNumber(v) ==
  CASE v.t = "null" -> Num(0)
    [] v.t = "undefined" -> NaN
    [] v.t = "nan" -> NaN
    [] v.t = "number" -> v
    [] v.t = "boolean" -> Num(v.n)
    [] v.t = "date" -> Num(v.n)
    [] v.t = "string" -> StringToNumber(v.s)

\* Code-unit order of two strings.
StringLess(x, y) ==
  \E k \in 1..Len(y) :
     /\ k <= Len(x) + 1
     /\ SubSeq(x, 1, k - 1) = SubSeq(y, 1, k - 1)
     /\ (k = Len(x) + 1 \/ x[k] < y[k])

\* x < y: strings compare by code units, everything else as numbers, and a
\* comparison with NaN is false.
Less(x, y) ==
  IF x.t = "string" /\ y.t = "string" THEN StringLess(x.s, y.s)
  ELSE ToNumber(x).t = "number" /\ ToNumber(y).t = "number" /\ ToNumber(x).n < ToNumber(y).n

\* x > y.
Greater(x, y) == Less(y, x)

\* x <= y: not (y < x), and false when either side is NaN.
LessEq(x, y) ==
  IF x.t = "string" /\ y.t = "string" THEN ~StringLess(y.s, x.s)
  ELSE ToNumber(x).t = "number" /\ ToNumber(y).t = "number" /\ ToNumber(x).n <= ToNumber(y).n

\* x === y where y is a value built for this comparison: two Dates are two
\* objects, and NaN equals nothing.
StrictEquals(x, y) == x.t = y.t /\ x.t \notin {"nan", "date"} /\ x.n = y.n /\ x.s = y.s

\* !!v
Truthy(v) ==
  CASE v.t \in {"null", "undefined", "nan"} -> FALSE
    [] v.t = "number" -> v.n # 0
    [] v.t = "boolean" -> v.n = 1
    [] v.t = "string" -> v.s # <<>>
    [] OTHER -> TRUE

(***************************************************************************)
(* utils/deepint-sources: value coercion                                   *)
(***************************************************************************)
NOMINAL_MAX_LENGTH == 255

\* Date.parse(s): the ISO year form of the epoch year, and NaN for a string
\* without any digit. Other strings are not drawn.
DateParse(s) ==
  CASE s = <<49, 57, 55, 48>> -> Num(0)
    [] \A i \in 1..Len(s) : ~IsDigit(s[i]) -> NaN

\* new Date(data) followed by date.toISOString(), which throws a RangeError
\* on an invalid Date: the catch block returns new Date(0).
NewDate(data) ==
  LET tv == IF data.t = "string" THEN DateParse(data.s) ELSE ToNumber(data)
  IN IF tv.t = "number" THEN DateOf(tv.n) ELSE DateOf(0)

turnInto(data, type) ==
  IF data.t \in {"null", "undefined"} THEN Null
  ELSE CASE type = "nominal" -> Str(substr(JSToString(data), 0, NOMINAL_MAX_LENGTH))
         [] type = "date" -> NewDate(data)
         [] type = "numeric" ->
              IF ToNumber(data).t = "nan" THEN Null ELSE ToNumber(data)
         [] type = "logic" ->
              IF data = Str(Chars["true"]) \/ data = Str(<<49>>) THEN Bool(TRUE)
              ELSE IF data = Str(Chars["false"]) \/ data = Str(<<48>>) THEN Bool(FALSE)
              ELSE Bool(Truthy(data))
         [] OTHER -> Str(JSToString(data))

(***************************************************************************)
(* utils/deepint-sources: the filter sanitizer                             *)
(***************************************************************************)
QUERY_TREE_MAX_DEPH == 4

QUERY_TREE_MAX_CHILDREN == 16

RIGHT_MAX_LENGTH == 1024

TreeTypes == {"single", "one", "anyof", "allof", "not"}

Operations ==
  {"null", "eq", "lt", "le", "lte", "gt", "ge", "gte", "cn", "cni", "sw", "swi", "ew", "ewi"}

\* A QueryTree object.
Node(type, operation, left, right, children) ==
  [type |-> type, operation |-> operation, left |-> left, right |-> right,
   children |-> children]

\* The QueryTree that is null.
NullTree == Node("NULL", "", -1, Null, <<>>)

\* The object sanitizeQueryTree starts from.
DefaultNode == Node("anyof", "", -1, Str(<<>>), <<>>)

\* The outcome of a call: a returned value, or an exception.
Returned(v) == [threw |-> FALSE, value |-> v]

Thrown == [threw |-> TRUE, value |-> NullTree]

\* The word of `words` that the string s spells, or `other`.
WordOf(s, words, other) ==
  IF \E w \in words : Chars[w] = s THEN CHOOSE w \in words : Chars[w] = s ELSE other

\* Descends with the depth test off by one.
DescendsOneTooDeep(depth, type, raw) ==
  depth <= QUERY_TREE_MAX_DEPH /\ type \in {"anyof", "allof", "not"} /\ raw.t = "array"

\* The guard of the descent into tree.children.
Descends(depth, type, raw) ==
  depth < QUERY_TREE_MAX_DEPH /\ type \in {"anyof", "allof", "not"} /\ raw.t = "array"

RECURSIVE sanitizeQueryTree(_, _)
sanitizeQueryTree(tree, depth) ==
  IF ~TypeofObject(tree) THEN Returned(DefaultNode)
  ELSE IF tree.t = "null" THEN Thrown   \* tree.type of null: a TypeError
  ELSE
    LET type == WordOf(toLowerCase(JSToString(Get(tree, "type"))), TreeTypes, "anyof")
        operation ==
          WordOf(toLowerCase(JSToString(Get(tree, "operation"))), Operations, "")
        \* Math.floor of a number, all of which are integers here.
        left == IF Get(tree, "left").t = "number" THEN Get(tree, "left").n ELSE -1
        right == IF Get(tree, "right").t = "null" THEN Null
                 ELSE Str(substr(JSToString(Get(tree, "right")), 0, RIGHT_MAX_LENGTH))
        raw == Get(tree, "children")
        kids ==
          IF Descends(depth, type, raw)
            THEN [i \in 1..Min(Len(raw.a), QUERY_TREE_MAX_CHILDREN) |->
                    sanitizeQueryTree(raw.a[i], depth + 1)]
            ELSE <<>>
    IN IF \E i \in 1..Len(kids) : kids[i].threw THEN Thrown
       ELSE Returned(Node(type, operation, left, right,
                          [i \in 1..Len(kids) |-> kids[i].value]))

(***************************************************************************)
(* utils/deepint-sources: the filter evaluator                             *)
(***************************************************************************)
\* arr[i] of a JavaScript array: undefined outside its indexes.
At(arr, i) == IF i >= 0 /\ i < Len(arr) THEN arr[i + 1] ELSE Undefined

\* features[i] ? features[i].type : "text"
TypeAt(features, i) == IF i >= 0 /\ i < Len(features) THEN features[i + 1].type ELSE "text"

\* Compare with gt and ge as greater-than and greater-or-equal.
CompareGtGreater(operation, val, cmp) ==
  CASE operation = "null" -> val.t = "null"
    [] operation = "eq" -> StrictEquals(val, cmp)
    [] operation = "lt" -> Less(val, cmp)
    [] operation \in {"le", "lte"} -> LessEq(val, cmp)
    [] operation = "gt" -> Less(cmp, val)
    [] operation \in {"ge", "gte"} -> LessEq(cmp, val)
    [] operation = "cn" -> includes(JSToString(val), JSToString(cmp))
    [] operation = "cni" ->
         includes(toLowerCase(JSToString(val)), toLowerCase(JSToString(cmp)))
    [] operation = "sw" -> startsWith(JSToString(val), JSToString(cmp))
    [] operation = "swi" ->
         startsWith(toLowerCase(JSToString(val)), toLowerCase(JSToString(cmp)))
    [] operation = "ew" -> endsWith(JSToString(val), JSToString(cmp))
    [] operation = "ewi" ->
         endsWith(toLowerCase(JSToString(val)), toLowerCase(JSToString(cmp)))
    [] OTHER -> FALSE

\* The leaf comparison of checkFilter's default case.
Compare(operation, val, cmp) ==
  CASE operation = "null" -> val.t = "null"
    [] operation = "eq" -> StrictEquals(val, cmp)
    [] operation = "lt" -> Less(val, cmp)
    [] operation \in {"le", "lte"} -> LessEq(val, cmp)
    [] operation = "gt" -> Less(val, cmp)
    [] operation \in {"ge", "gte"} -> LessEq(val, cmp)
    [] operation = "cn" -> includes(JSToString(val), JSToString(cmp))
    [] operation = "cni" ->
         includes(toLowerCase(JSToString(val)), toLowerCase(JSToString(cmp)))
    [] operation = "sw" -> startsWith(JSToString(val), JSToString(cmp))
    [] operation = "swi" ->
         startsWith(toLowerCase(JSToString(val)), toLowerCase(JSToString(cmp)))
    [] operation = "ew" -> endsWith(JSToString(val), JSToString(cmp))
    [] operation = "ewi" ->
         endsWith(toLowerCase(JSToString(val)), toLowerCase(JSToString(cmp)))
    [] OTHER -> FALSE

RECURSIVE checkFilter(_, _, _)
RECURSIVE ChildrenLoop(_, _, _, _)
\* ChildrenLoop with not as the negation of allof: res = !(res && c).
ChildrenLoopNegatedAnd(features, instance, query, n) ==
  IF n = 0 THEN query.type # "anyof"
  ELSE LET res == ChildrenLoop(features, instance, query, n - 1)
           c == checkFilter(features, instance, query.children[n])
       IN CASE query.type = "anyof" -> res \/ c
            [] query.type = "allof" -> res /\ c
            [] query.type = "not" -> ~(res /\ c)

\* The loops over query.children, after n children: res = res || c for
\* anyof, res = res && c for allof, res = res && !c for not.
ChildrenLoop(features, instance, query, n) ==
  IF n = 0 THEN query.type # "anyof"
  ELSE LET res == ChildrenLoop(features, instance, query, n - 1)
           c == checkFilter(features, instance, query.children[n])
       IN CASE query.type = "anyof" -> res \/ c
            [] query.type = "allof" -> res /\ c
            [] query.type = "not" -> res /\ ~c

\* checkFilter whose shortcut for a null literal forgets the operator.
checkFilterAnyNullRight(features, instance, query) ==
  IF query.type \in {"anyof", "allof", "not"}
    THEN IF Len(query.children) = 0 THEN TRUE
         ELSE ChildrenLoop(features, instance, query, Len(query.children))
    ELSE IF query.right.t = "null" THEN TRUE
         ELSE Compare(query.operation, At(instance, query.left),
                      turnInto(query.right, TypeAt(features, query.left)))

checkFilter(features, instance, query) ==
  IF query.type \in {"anyof", "allof", "not"}
    THEN IF Len(query.children) = 0 THEN TRUE
         ELSE ChildrenLoop(features, instance, query, Len(query.children))
    ELSE IF query.operation # "null" /\ query.right.t = "null" THEN TRUE
         ELSE Compare(query.operation, At(instance, query.left),
                      turnInto(query.right, TypeAt(features, query.left)))

(***************************************************************************)
(* config.ts and the file read at start                                    *)
(***************************************************************************)
\* SOURCE_FIELDS, split by commas.
sourceFeatures == <<"x", "y", "l", "d", "t">>

\* SOURCE_FIELDS_TYPES, split by commas and normalised: one type fewer than
\* there are fields.
sourceFeaturesTypes == <<"numeric", "nominal", "logic", "date">>

\* JSON.parse of SOURCE_FILE: an array of four objects.
SourceFile ==
  Arr(<< Obj(<< <<"x", Num(1)>>, <<"y", Str(<<97>>)>>, <<"l", Str(Chars["true"])>>,
               <<"d", Num(5)>>, <<"t", Str(<<65, 98>>)>> >>),
         Obj(<< <<"x", Num(5)>>, <<"y", Str(<<98>>)>>, <<"l", Str(<<48>>)>>,
               <<"d", Str(<<49, 57, 55, 48>>)>>, <<"t", Num(12)>> >>),
         Obj(<< <<"x", Str(<<51>>)>>, <<"y", Str(<<99>>)>>,
               <<"d", Str(<<97>>)>>, <<"t", Str(<<97, 98>>)>> >>),
         Obj(<< <<"x", Str(<<97, 98, 99>>)>>, <<"y", Str(<<97>>)>>, <<"l", Num(0)>>,
               <<"d", Null>>, <<"t", Str(<<98>>)>> >>) >>)

(***************************************************************************)
(* source.ts: DataSource                                                   *)
(***************************************************************************)
\* this.fields of the constructor.
ConstructFields ==
  [i \in 1..Len(sourceFeatures) |->
     [index |-> i - 1, name |-> sourceFeatures[i],
      type |-> IF i <= Len(sourceFeaturesTypes) THEN sourceFeaturesTypes[i] ELSE "text"]]

\* this.instances of the constructor.
ConstructInstances(data, features) ==
  [r \in 1..Len(data.a) |->
     [c \in 1..Len(features) |-> turnInto(Get(data.a[r], features[c].name), features[c].type)]]

\* A stage of the pipeline hands on an array (rows), which is the stored array
\* itself (ref = "store") or a new one (ref = "fresh"), and leaves
\* this.instances as `store`.
Stage(rows, ref, store) == [rows |-> rows, ref |-> ref, store |-> store]

getFilteredInstances(store, features, filter) ==
  IF filter = NullTree THEN Stage(store, "fresh", store)
  ELSE Stage(SelectSeq(store, LAMBDA instance : checkFilter(features, instance, filter)),
             "fresh", store)

\* The comparator handed to Array.prototype.sort.
SortCompare(a, b, order, dir) ==
  IF dir = Chars["desc"]
    THEN IF Less(At(a, order), At(b, order)) THEN 1
         ELSE IF Greater(At(a, order), At(b, order)) THEN -1 ELSE 0
    ELSE IF Less(At(a, order), At(b, order)) THEN -1
         ELSE IF Greater(At(a, order), At(b, order)) THEN 1 ELSE 0

\* Array.prototype.sort: a stable sort, as an insertion from the right.
RECURSIVE InsertSorted(_, _, _, _)
InsertSorted(sorted, x, order, dir) ==
  IF sorted # <<>> /\ SortCompare(sorted[Len(sorted)], x, order, dir) > 0
    THEN Append(InsertSorted(SubSeq(sorted, 1, Len(sorted) - 1), x, order, dir),
                sorted[Len(sorted)])
    ELSE Append(sorted, x)

RECURSIVE Sort(_, _, _, _)
Sort(arr, n, order, dir) ==
  IF n = 0 THEN <<>> ELSE InsertSorted(Sort(arr, n - 1, order, dir), arr[n], order, dir)

\* this.instances.sort(...) sorts the stored array in place and returns it.
applyOrder(instances, features, order, dir) ==
  IF ~(order >= 0 /\ order < Len(features)) THEN instances
  ELSE LET sorted == Sort(instances.store, Len(instances.store), order, dir)
       IN Stage(sorted, "store", sorted)

\* skipInstances that keeps the last of the rows to drop.
skipInstancesOneLess(instances, skip) ==
  IF skip > 0
    THEN Stage(SubSeq(instances.rows, skip, Len(instances.rows)), "fresh", instances.store)
    ELSE instances

skipInstances(instances, skip) ==
  IF skip > 0
    THEN Stage(SubSeq(instances.rows, skip + 1, Len(instances.rows)), "fresh", instances.store)
    ELSE instances

limitInstances(instances, limit) ==
  IF limit > 0
    THEN Stage(SubSeq(instances.rows, 1, Min(limit, Len(instances.rows))), "fresh",
               instances.store)
    ELSE instances

\* applyProjection that takes the first columns instead of the requested ones.
applyProjectionByPosition(instances, projection) ==
  IF projection = <<>> THEN instances
  ELSE Stage([r \in 1..Len(instances.rows) |->
                [k \in 1..Len(projection) |-> At(instances.rows[r], k - 1)]],
             "fresh", instances.store)

applyProjection(instances, projection) ==
  IF projection = <<>> THEN instances
  ELSE Stage([r \in 1..Len(instances.rows) |->
                [k \in 1..Len(projection) |-> At(instances.rows[r], projection[k])]],
             "fresh", instances.store)

sanitizeFilter(json) ==
  IF ~Truthy(json) THEN Returned(NullTree) ELSE sanitizeQueryTree(json, 0)

RECURSIVE Split(_, _)
\* s.split(","), with `cur` the piece being read.
Split(s, cur) ==
  IF s = <<>> THEN <<cur>>
  ELSE IF s[1] = 44 THEN <<cur>> \o Split(Tail(s), <<>>)
  ELSE Split(Tail(s), Append(cur, s[1]))

\* The longest prefix of digits of s from index i.
RECURSIVE DigitPrefix(_, _)
DigitPrefix(s, i) ==
  IF i <= Len(s) /\ IsDigit(s[i]) THEN <<s[i]>> \o DigitPrefix(s, i + 1) ELSE <<>>

\* parseInt(s, 10) of a string without white space.
parseInt(s) ==
  LET neg == s # <<>> /\ s[1] = 45
      digits == DigitPrefix(s, IF neg THEN 2 ELSE 1)
  IN IF digits = <<>> THEN NaN
     ELSE Num(IF neg THEN 0 - DigitsValue(digits, 1, 0) ELSE DigitsValue(digits, 1, 0))

sanitizeProjection(projection, features) ==
  IF projection = <<>> THEN <<>>
  ELSE LET parsed == [i \in 1..Len(Split(projection, <<>>)) |->
                        parseInt(Split(projection, <<>>)[i])]
           kept == SelectSeq(parsed,
                     LAMBDA a : a.t = "number" /\ a.n >= 0 /\ a.n < Len(features))
       IN [i \in 1..Len(kept) |-> kept[i].n]

\* The streaming tally of countInstances over the first n stored rows.
RECURSIVE Tally(_, _, _, _)
\* Tally that misses the first row.
TallyFromSecond(store, features, filter, n) ==
  IF n <= 1 THEN 0
  ELSE Tally(store, features, filter, n - 1)
       + (IF checkFilter(features, store[n], filter) THEN 1 ELSE 0)

Tally(store, features, filter, n) ==
  IF n = 0 THEN 0
  ELSE Tally(store, features, filter, n - 1)
       + (IF checkFilter(features, store[n], filter) THEN 1 ELSE 0)

countInstances(store, features, filter) ==
  IF filter = NullTree THEN Len(store) ELSE Tally(store, features, filter, Len(store))

\* query(): the projected features, and the stages in the order of line 191.
queryFeatures(features, projection) ==
  IF projection # <<>> THEN [k \in 1..Len(projection) |-> At(features, projection[k])]
  ELSE features

query(store, features, filter, order, dir, skip, limit, projection) ==
  limitInstances(
    skipInstances(
      applyProjection(
        applyOrder(getFilteredInstances(store, features, filter), features, order, dir),
        projection),
      skip),
    limit)

NOMINAL_VALUES_LIMIT == 128

\* getNominalValues that cuts to the limit before it looks at the query.
getNominalValuesCutFirst(store, features, filter, queryText, feature) ==
  IF ~(feature >= 0 /\ feature < Len(features)) \/ At(features, feature).type # "nominal"
    THEN <<>>
  ELSE LET lowered == toLowerCase(queryText)
           instances ==
             applyProjection(getFilteredInstances(store, features, filter), <<feature>>)
           strings == [r \in 1..Len(instances.rows) |-> JSToString(instances.rows[r][1])]
           cut == SubSeq(strings, 1, Min(NOMINAL_VALUES_LIMIT, Len(strings)))
       IN SelectSeq(cut, LAMBDA f : lowered = <<>> \/ startsWith(toLowerCase(f), lowered))

getNominalValues(store, features, filter, queryText, feature) ==
  IF ~(feature >= 0 /\ feature < Len(features)) \/ At(features, feature).type # "nominal"
    THEN <<>>
  ELSE LET lowered == toLowerCase(queryText)
           instances ==
             applyProjection(getFilteredInstances(store, features, filter), <<feature>>)
           strings == [r \in 1..Len(instances.rows) |-> JSToString(instances.rows[r][1])]
           values == SelectSeq(strings,
                       LAMBDA f : lowered = <<>> \/ startsWith(toLowerCase(f), lowered))
       IN SubSeq(values, 1, Min(NOMINAL_VALUES_LIMIT, Len(values)))

(***************************************************************************)
(* controllers/source.ts: the request handlers                             *)
(***************************************************************************)
VARIABLES
  fields,     \* DataSource.fields
  instances,  \* DataSource.instances
  loaded,     \* the rows as the constructor stored them
  request,    \* the body of the last request, and the handler it went to
  response,   \* what that handler answered
  san,        \* a call of the sanitizer: its input and its outcome
  ev          \* a call of checkFilter: its row, its tree and its result

vars == <<fields, instances, loaded, request, response, san, ev>>

\* x || 0 of a parseInt result.
OrZero(v) == IF v.t = "number" THEN v.n ELSE 0

\* (x || "") + ""
OrEmptyString(v) == IF Truthy(v) THEN JSToString(v) ELSE <<>>

Body(handler, filter, order, dir, skip, limit, projection, feature, queryText) ==
  [handler |-> handler, filter |-> filter, order |-> order, dir |-> dir, skip |-> skip,
   limit |-> limit, projection |-> projection, feature |-> feature, query |-> queryText]

NoBody == Body("none", Undefined, Undefined, Undefined, Undefined, Undefined, Undefined,
               Undefined, Undefined)

Response(status, features, rows, ref, count, values) ==
  [status |-> status, features |-> features, instances |-> rows, ref |-> ref,
   count |-> count, values |-> values]

NoResponse == Response(0, <<>>, <<>>, "fresh", 0, <<>>)

NoSan == [fn |-> "none", raw |-> Undefined, threw |-> FALSE, value |-> NullTree]

NoEv == [instance |-> <<>>, query |-> NullTree, called |-> FALSE, result |-> FALSE]

\* The arguments the handlers read from a body.
OrderOf(body) ==
  IF body.order = Undefined \/ body.order = Str(<<>>) THEN -1
  ELSE OrZero(parseInt(JSToString(body.order)))

DirOf(body) == JSToString(body.dir)

SkipOf(body) == OrZero(parseInt(JSToString(body.skip)))

LimitOf(body) == OrZero(parseInt(JSToString(body.limit)))

ProjectionOf(body, features) == sanitizeProjection(OrEmptyString(body.projection), features)

FeatureOf(body) ==
  IF body.feature = Undefined THEN -1 ELSE OrZero(parseInt(JSToString(body.feature)))

getMetadata ==
  /\ request' = [NoBody EXCEPT !.handler = "metadata"]
  /\ response' = Response(200, fields, <<>>, "fresh",
                          countInstances(instances, fields, NullTree), <<>>)
  /\ UNCHANGED <<fields, instances, loaded, san, ev>>

queryInstances(body) ==
  LET filter == sanitizeFilter(body.filter)
  IN /\ request' = body
     /\ IF filter.threw
          THEN /\ response' = Response(400, <<>>, <<>>, "fresh", 0, <<>>)
               /\ UNCHANGED instances
          ELSE LET projection == ProjectionOf(body, fields)
                   result == query(instances, fields, filter.value, OrderOf(body),
                                   DirOf(body), SkipOf(body), LimitOf(body), projection)
               IN /\ response' = Response(200, queryFeatures(fields, projection),
                                          result.rows, result.ref, 0, <<>>)
                  /\ instances' = result.store
     /\ UNCHANGED <<fields, loaded, san, ev>>

countInstancesHandler(body) ==
  LET filter == sanitizeFilter(body.filter)
  IN /\ request' = body
     /\ response' =
          IF filter.threw THEN Response(400, <<>>, <<>>, "fresh", 0, <<>>)
          ELSE Response(200, <<>>, <<>>, "fresh",
                        countInstances(instances, fields, filter.value), <<>>)
     /\ UNCHANGED <<fields, instances, loaded, san, ev>>

getNominalValuesHandler(body) ==
  LET filter == sanitizeFilter(body.filter)
  IN /\ request' = body
     /\ response' =
          IF filter.threw THEN Response(400, <<>>, <<>>, "fresh", 0, <<>>)
          ELSE Response(200, <<>>, <<>>, "fresh", 0,
                        getNominalValues(instances, fields, filter.value,
                                         OrEmptyString(body.query), FeatureOf(body)))
     /\ UNCHANGED <<fields, instances, loaded, san, ev>>

(***************************************************************************)
(* The requests sent to the server                                         *)
(***************************************************************************)
\* Raw filter payloads, as JSON.parse of the request body yields them.
RawLeaf(type, operation, left, right) ==
  Obj(<< <<"type", Str(Chars[type])>>, <<"operation", Str(Chars[operation])>>,
         <<"left", Num(left)>>, <<"right", right>> >>)

RawNode(type, children) ==
  Obj(<< <<"type", Str(Chars[type])>>, <<"children", Arr(children)>> >>)

\* No filter; x "gt" "2"; not (y = "a"); a child that is null.
RequestFilters ==
  { Undefined,
    RawLeaf("single", "gt", 0, Str(<<50>>)),
    RawNode("not", << RawLeaf("one", "eq", 1, Str(<<97>>)) >>),
    RawNode("anyof", << Null >>) }

\* Skip and limit values range over -1..MaxPage, or are absent.
MaxPage == 2

\* Absent; the columns x and y; "9x", which parseInt reads as 9.
RequestOrders == {Undefined, Num(0), Num(1), Str(<<57, 120>>)}

RequestDirs == {Undefined, Str(Chars["desc"])}

RequestPages == {Undefined} \cup {Num(k) : k \in (-1..MaxPage) \ {0}}

\* Absent; "2,0"; "1,1"; "9,a,0", of which only the 0 is a column.
RequestProjections ==
  {Undefined, Str(<<50, 44, 48>>), Str(<<49, 44, 49>>), Str(<<57, 44, 97, 44, 48>>)}

\* Absent; the nominal column y; the numeric column x; no column.
RequestFeatures == {Undefined, Num(1), Num(0), Num(7)}

\* Absent; "A"; "b".
RequestQueries == {Undefined, Str(<<65>>), Str(<<98>>)}

\* The filters of the paged, projected and nominal-value requests.
PlainFilters == {Undefined, RawLeaf("single", "gt", 0, Str(<<50>>))}

\* Query requests: every filter with every order and direction; every skip
\* and limit over two filters, an order and a projection; every projection.
QueryBodies ==
  { Body("query", f, o, d, Undefined, Undefined, Undefined, Undefined, Undefined) :
      f \in RequestFilters, o \in RequestOrders, d \in RequestDirs }
  \cup
  { Body("query", f, o, Undefined, s, l, p, Undefined, Undefined) :
      f \in PlainFilters, o \in {Undefined, Num(0)},
      s \in RequestPages, l \in RequestPages, p \in {Undefined, Str(<<50, 44, 48>>)} }
  \cup
  { Body("query", f, o, Undefined, Undefined, Undefined, p, Undefined, Undefined) :
      f \in PlainFilters, o \in {Undefined, Num(1)}, p \in RequestProjections }

CountBodies ==
  { Body("count", f, Undefined, Undefined, Undefined, Undefined, Undefined, Undefined,
         Undefined) : f \in RequestFilters }

NominalBodies ==
  { Body("nominal", f, Undefined, Undefined, Undefined, Undefined, Undefined, c, q) :
      f \in PlainFilters, c \in RequestFeatures, q \in RequestQueries }

Init ==
  /\ fields = ConstructFields
  /\ instances = ConstructInstances(SourceFile, ConstructFields)
  /\ loaded = ConstructInstances(SourceFile, ConstructFields)
  /\ request = NoBody
  /\ response = NoResponse
  /\ san = NoSan
  /\ ev = NoEv

Metadata == getMetadata

Query == \E body \in QueryBodies : queryInstances(body)

Count == \E body \in CountBodies : countInstancesHandler(body)

NominalValues == \E body \in NominalBodies : getNominalValuesHandler(body)

Next == Metadata \/ Query \/ Count \/ NominalValues

Spec == Init /\ [][Next]_vars

(***************************************************************************)
(* Calls of the sanitizer on raw payloads                                  *)
(***************************************************************************)
\* The nesting depth, the children per node and the literal length of the raw
\* payloads: each one more than the sanitizer keeps, and more.
MaxRawDepth == 6

MaxRawChildren == 17

MaxRawLength == 1025

\* An object with the given properties; an absent one is passed as Undefined.
RawObject(type, operation, left, right, children) ==
  Obj(SelectSeq(<< <<"type", type>>, <<"operation", operation>>, <<"left", left>>,
                   <<"right", right>>, <<"children", children>> >>,
                LAMBDA prop : prop[2] # Undefined))

LongString == Str([i \in 1..MaxRawLength |-> 97])

\* Absent, "single", "ONE", "zz", 3 and ["not"].
RawTypes ==
  {Undefined, Str(Chars["single"]), Str(<<79, 78, 69>>), Str(<<122, 122>>), Num(3),
   Arr(<< Str(Chars["not"]) >>)}

\* Absent, "GT", "eq" and "z".
RawOperations == {Undefined, Str(<<71, 84>>), Str(Chars["eq"]), Str(<<122>>)}

\* Absent, 2 and "1".
RawLefts == {Undefined, Num(2), Str(<<49>>)}

\* Absent, null, "ab", 12, true and a string longer than the sanitizer keeps.
RawRights == {Undefined, Null, Str(<<97, 98>>), Num(12), Bool(TRUE), LongString}

RawLeaves ==
  { RawObject(ty, op, l, r, Undefined) :
      ty \in RawTypes, op \in RawOperations, l \in RawLefts, r \in RawRights }

LongLeaf == RawObject(Str(Chars["one"]), Str(Chars["sw"]), Num(1), LongString, Undefined)

CombinatorOf(d) == Str(Chars[<<"anyof", "allof", "not">>[(d % 3) + 1]])

\* d combinators nested in each other, each with the next one and a leaf as
\* its children.
RECURSIVE RawChain(_, _)
RawChain(d, leaf) ==
  IF d = 0 THEN leaf
  ELSE RawObject(CombinatorOf(d), Undefined, Undefined, LongString,
                 Arr(<< RawChain(d - 1, leaf), leaf >>))

\* A combinator with n children that are all `child`.
RawWide(n, child) ==
  RawObject(Str(Chars["allof"]), Undefined, Undefined, Undefined, Arr([i \in 1..n |-> child]))

RawTrees ==
  { RawChain(d, leaf) : d \in 1..MaxRawDepth, leaf \in {LongLeaf, Null, Num(1)} }
  \cup
  { RawWide(n, child) :
      n \in 0..MaxRawChildren,
      child \in {LongLeaf, Null, Str(<<97>>), RawWide(MaxRawChildren, LongLeaf)} }
  \cup
  { RawChain(d, RawWide(MaxRawChildren, LongLeaf)) : d \in 1..MaxRawDepth }
  \cup
  { RawObject(Str(Chars["anyof"]), Undefined, Undefined, Undefined, c) :
      c \in {Str(<<97>>), Null, Num(2), LongLeaf} }
  \cup
  { RawObject(Str(Chars["single"]), Undefined, Undefined, Undefined, Arr(<< LongLeaf >>)),
    RawWide(MaxRawChildren, RawChain(MaxRawDepth, LongLeaf)) }

RawPrimitives ==
  {Null, Undefined, Num(0), Num(7), Str(<<>>), Str(<<97>>), Bool(TRUE), Bool(FALSE),
   Arr(<<>>), Arr(<< LongLeaf >>)}

RawInputs == RawPrimitives \cup RawLeaves \cup RawTrees

\* The payload is drawn first; a call then sanitizes it.
InitSanitize ==
  /\ fields = ConstructFields
  /\ instances = ConstructInstances(SourceFile, ConstructFields)
  /\ loaded = ConstructInstances(SourceFile, ConstructFields)
  /\ request = NoBody
  /\ response = NoResponse
  /\ \E raw \in RawInputs : san = [NoSan EXCEPT !.raw = raw]
  /\ ev = NoEv

CallSanitizeQueryTree ==
  /\ san.fn = "none"
  /\ san' = [fn |-> "sanitizeQueryTree", raw |-> san.raw,
             threw |-> sanitizeQueryTree(san.raw, 0).threw,
             value |-> sanitizeQueryTree(san.raw, 0).value]
  /\ UNCHANGED <<fields, instances, loaded, request, response, ev>>

CallSanitizeFilter ==
  /\ san.fn = "none"
  /\ san' = [fn |-> "sanitizeFilter", raw |-> san.raw,
             threw |-> sanitizeFilter(san.raw).threw,
             value |-> sanitizeFilter(san.raw).value]
  /\ UNCHANGED <<fields, instances, loaded, request, response, ev>>

NextSanitize == CallSanitizeQueryTree \/ CallSanitizeFilter

SpecSanitize == InitSanitize /\ [][NextSanitize]_vars

(***************************************************************************)
(* Calls of checkFilter on the stored rows                                 *)
(***************************************************************************)
\* The children drawn for a combinator number at most MaxChildrenDrawn.
MaxChildrenDrawn == 2

\* The literals of the leaves: null, "2", "a", "A", "ab", "true", "0", "".
Literals ==
  {Null, Str(<<50>>), Str(<<97>>), Str(<<65>>), Str(<<97, 98>>), Str(Chars["true"]),
   Str(<<48>>), Str(<<>>)}

\* The literals compared with the date column: null, "1970", "a", "".
DateLiterals == {Null, Str(<<49, 57, 55, 48>>), Str(<<97>>), Str(<<>>)}

StringOperations == {"cn", "cni", "sw", "swi", "ew", "ewi"}

\* Every leaf over every column reference from -1 to one past the last
\* column. A Date prints in the zone of the process, so no string operation
\* is drawn for the date column.
EvalLeaves ==
  { Node(ty, op, l, r, <<>>) :
      ty \in {"single", "one"}, op \in Operations \cup {""},
      l \in (-1..Len(sourceFeatures)) \ {3}, r \in Literals }
  \cup
  { Node(ty, op, 3, r, <<>>) :
      ty \in {"single", "one"}, op \in (Operations \ StringOperations) \cup {""},
      r \in DateLiterals }

\* x < "2", y = "a" and l is null.
PoolLeaves ==
  { Node("single", "lt", 0, Str(<<50>>), <<>>),
    Node("one", "eq", 1, Str(<<97>>), <<>>),
    Node("single", "null", 2, Str(<<>>), <<>>) }

SeqsUpTo(S, n) == UNION { [1..k -> S] : k \in 0..n }

Combinator(type, children) == Node(type, "", -1, Str(<<>>), children)

PoolCombinators ==
  { Combinator("anyof", <<>>),
    Combinator("not", << Node("single", "lt", 0, Str(<<50>>), <<>>) >>),
    Combinator("allof", << Node("single", "lt", 0, Str(<<50>>), <<>>),
                           Node("one", "eq", 1, Str(<<97>>), <<>>) >>),
    Combinator("anyof", << Node("one", "eq", 1, Str(<<97>>), <<>>),
                           Node("single", "null", 2, Str(<<>>), <<>>) >>) }

EvalCombinators ==
  { Combinator(ty, kids) :
      ty \in {"anyof", "allof", "not"},
      kids \in SeqsUpTo(PoolLeaves \cup PoolCombinators, MaxChildrenDrawn) }

EvalTrees == EvalLeaves \cup EvalCombinators

\* The row and the tree are drawn first; a call then evaluates them.
InitEval ==
  /\ fields = ConstructFields
  /\ instances = ConstructInstances(SourceFile, ConstructFields)
  /\ loaded = ConstructInstances(SourceFile, ConstructFields)
  /\ request = NoBody
  /\ response = NoResponse
  /\ san = NoSan
  /\ \E r \in 1..Len(SourceFile.a), q \in EvalTrees :
       ev = [instance |-> ConstructInstances(SourceFile, ConstructFields)[r],
             query |-> q, called |-> FALSE, result |-> FALSE]

CallCheckFilter ==
  /\ ~ev.called
  /\ ev' = [ev EXCEPT !.called = TRUE,
                      !.result = checkFilter(fields, ev.instance, ev.query)]
  /\ UNCHANGED <<fields, instances, loaded, request, response, san>>

NextEval == CallCheckFilter

SpecEval == InitEval /\ [][NextEval]_vars

(***************************************************************************)
(* Properties of the sanitizer                                             *)
(***************************************************************************)
\* C3: the sanitizer never raises: every call of sanitizeQueryTree and of
\* sanitizeFilter, on any raw payload, returns a value.
SanitizerNeverRaises == san.fn # "none" => ~san.threw

RECURSIVE Bounded(_, _)
Bounded(node, depth) ==
  /\ depth <= 4
  /\ Len(node.children) <= 16
  /\ node.right.t = "null" \/ (node.right.t = "string" /\ Len(node.right.s) <= 1024)
  /\ node.type \in {"single", "one", "anyof", "allof", "not"}
  /\ node.operation \in
       {"null", "eq", "lt", "le", "lte", "gt", "ge", "gte", "cn", "cni", "sw", "swi",
        "ew", "ewi", ""}
  /\ (node.children # <<>> => node.type \in {"anyof", "allof", "not"})
  /\ \A i \in 1..Len(node.children) : Bounded(node.children[i], depth + 1)

\* C4: every tree the sanitizer returns is bounded and well-typed: depth at
\* most 4 with the root at depth 0, at most 16 children per node, literals
\* null or strings of at most 1024 characters, type and operation of the fixed
\* sets, and children only under anyof, allof and not.
SanitizedTreeBounded ==
  (san.fn # "none" /\ ~san.threw /\ san.value # NullTree) => Bounded(san.value, 0)

RECURSIVE TreeDepth(_)
TreeDepth(node) ==
  IF node.children = <<>> THEN 0
  ELSE 1 + TreeDepth(node.children[
             CHOOSE i \in 1..Len(node.children) :
               \A j \in 1..Len(node.children) :
                 TreeDepth(node.children[j]) <= TreeDepth(node.children[i])])

\* A payload with more than 16 children, nested deeper than 4 and with
\* literals longer than 1024 comes back cut to exactly these limits.
SanitizedTreeBoundedWitness ==
  /\ san.fn = "sanitizeFilter"
  /\ ~san.threw
  /\ san.raw = RawWide(MaxRawChildren, RawChain(MaxRawDepth, LongLeaf))
  /\ Len(Get(san.raw, "children").a) > 16
  /\ Len(Get(Get(san.raw, "children").a[1], "right").s) > 1024
  /\ Len(san.value.children) = 16
  /\ TreeDepth(san.value) = 4
  /\ Len(san.value.children[1].right.s) = 1024

(***************************************************************************)
(* Properties of the evaluator                                             *)
(***************************************************************************)
IsLeaf(q) == q.type \in {"single", "one"}

\* C6: on a leaf with a literal that is not null, gt gives what lt gives and
\* ge and gte give what le and lte give; on the numeric column, gt is true
\* exactly when the row's number is below the literal's, so that of the values
\* 1, 5 and 3 the leaf x gt "2" keeps only 1.
GtIsLt ==
  (ev.called /\ IsLeaf(ev.query) /\ ev.query.right.t # "null") =>
    /\ ev.query.operation = "gt" =>
         ev.result = checkFilter(fields, ev.instance, [ev.query EXCEPT !.operation = "lt"])
    /\ ev.query.operation \in {"ge", "gte"} =>
         /\ ev.result = checkFilter(fields, ev.instance, [ev.query EXCEPT !.operation = "le"])
         /\ ev.result = checkFilter(fields, ev.instance, [ev.query EXCEPT !.operation = "lte"])
    /\ (ev.query.operation = "gt" /\ ev.query.left = 0 /\ ev.query.right = Str(<<50>>)
        /\ ev.instance[1].t = "number") =>
         ev.result = (ev.instance[1].n < 2)
    /\ (ev.query.operation \in {"ge", "gte"} /\ ev.query.left = 0
        /\ ev.query.right = Str(<<50>>) /\ ev.instance[1].t = "number") =>
         ev.result = (ev.instance[1].n <= 2)

\* The leaf x gt "2" has been evaluated on the row with x = 1, and on one with
\* a larger x.
GtIsLtWitness ==
  /\ ev.called
  /\ ev.query = Node("single", "gt", 0, Str(<<50>>), <<>>)
  /\ \/ ev.instance[1] = Num(1) /\ ev.result
     \/ ev.instance[1] = Num(5) /\ ~ev.result

\* C7: anyof, allof and not without children are true; with children anyof
\* is the OR of the children, allof the AND, and not is true exactly when
\* every child is false.
CombinatorSemantics ==
  (ev.called /\ ev.query.type \in {"anyof", "allof", "not"}) =>
    ev.result =
      IF Len(ev.query.children) = 0 THEN TRUE
      ELSE CASE ev.query.type = "anyof" ->
                  \E i \in 1..Len(ev.query.children) :
                     checkFilter(fields, ev.instance, ev.query.children[i])
             [] ev.query.type = "allof" ->
                  \A i \in 1..Len(ev.query.children) :
                     checkFilter(fields, ev.instance, ev.query.children[i])
             [] ev.query.type = "not" ->
                  \A i \in 1..Len(ev.query.children) :
                     ~checkFilter(fields, ev.instance, ev.query.children[i])

\* A not over two children of which one holds is false.
CombinatorSemanticsWitness ==
  /\ ev.called
  /\ ev.query.type = "not"
  /\ Len(ev.query.children) = 2
  /\ checkFilter(fields, ev.instance, ev.query.children[1])
  /\ ~checkFilter(fields, ev.instance, ev.query.children[2])
  /\ ~ev.result

(***************************************************************************)
(* Properties of the server                                                *)
(***************************************************************************)
IsQueryAnswer == request.handler = "query" /\ response.status = 200

\* The filter a handler works with.
FilterOf(body) == sanitizeFilter(body.filter).value

\* C1: the stored dataset stays the sequence of rows the load produced: no
\* request changes the rows or their order.
DatasetImmutable == instances = loaded

\* The rows of `store` that the filter keeps, in the order of `store`.
Kept(store, filter) ==
  SelectSeq(store, LAMBDA row : filter = NullTree \/ checkFilter(fields, row, filter))

\* The filtered rows sorted by the order column, or as they are when the
\* order index is no column.
Ordered(rows, order, dir) ==
  IF order >= 0 /\ order < Len(fields) THEN Sort(rows, Len(rows), order, dir) ELSE rows

\* paginate(project(order(filter(dataset)))) for a request body.
Pipeline(store, body) ==
  limitInstances(
    skipInstances(
      applyProjection(
        Stage(Ordered(Kept(store, FilterOf(body)), OrderOf(body), DirOf(body)), "fresh", store),
        ProjectionOf(body, fields)),
      SkipOf(body)),
    LimitOf(body)).rows

\* C2: a query answers paginate(project(order(filter(dataset)))) of the
\* dataset it finds stored, and every row it returns satisfies the filter.
QueryIsPipeline ==
  [][(request'.handler = "query" /\ response'.status = 200) =>
       response'.instances = Pipeline(instances, request')]_vars

\* C5: an answer depends only on the request and the dataset as loaded: it is
\* the answer the same request gets as the first one after the load, and the
\* row sequence of a query answer is not the stored sequence itself.
RequestIndependent ==
  /\ IsQueryAnswer =>
       /\ response.instances =
            query(loaded, fields, FilterOf(request), OrderOf(request), DirOf(request),
                  SkipOf(request), LimitOf(request), ProjectionOf(request, fields)).rows
       /\ response.ref # "store"
  /\ (request.handler = "count" /\ response.status = 200) =>
       response.count = countInstances(loaded, fields, FilterOf(request))
  /\ (request.handler = "nominal" /\ response.status = 200) =>
       response.values =
         getNominalValues(loaded, fields, FilterOf(request), OrEmptyString(request.query),
                          FeatureOf(request))

\* C8: count(tree) is the number of stored rows for which the tree evaluates
\* to true, which is the number of rows the filter keeps; count(null) is the
\* size of the dataset.
CountIsFilteredSize ==
  /\ (request.handler = "count" /\ response.status = 200) =>
       /\ response.count =
            Cardinality({ i \in 1..Len(instances) :
                            FilterOf(request) = NullTree
                            \/ checkFilter(fields, instances[i], FilterOf(request)) })
       /\ response.count = Len(getFilteredInstances(instances, fields, FilterOf(request)).rows)
       /\ FilterOf(request) = NullTree => response.count = Len(instances)
  /\ request.handler = "metadata" => response.count = Len(instances)

\* A count with the filter x gt "2" on a dataset that a query has reordered.
CountIsFilteredSizeWitness ==
  /\ request.handler = "count"
  /\ response.status = 200
  /\ FilterOf(request) = Node("single", "gt", 0, Str(<<50>>), <<>>)
  /\ response.count = 2
  /\ instances # loaded

\* The rows a query has before it skips and limits: the ordering stage's
\* rows, projected. Read in the state the request leaves: sorting the stored
\* rows again by the same column changes nothing.
Projected(body) ==
  applyProjection(
    applyOrder(getFilteredInstances(instances, fields, FilterOf(body)), fields,
               OrderOf(body), DirOf(body)),
    ProjectionOf(body, fields)).rows

\* rows[from .. to-1], counting from 0.
Slice(rows, from, to) == [i \in 1..Max(to - from, 0) |-> rows[from + i]]

\* C9: a query answers rows r[s .. min(n, s + limit) - 1] of the n ordered,
\* projected rows r, with s = max(skip, 0) and everything kept for
\* limit <= 0; skip 2 and limit 1 on four rows give the third row.
Paginated ==
  IsQueryAnswer =>
    LET r == Projected(request)
        n == Len(r)
        s == Max(SkipOf(request), 0)
    IN /\ response.instances =
            Slice(r, s, IF LimitOf(request) <= 0 THEN n ELSE Min(n, s + LimitOf(request)))
       /\ (SkipOf(request) = 2 /\ LimitOf(request) = 1 /\ n = 4) =>
            response.instances = << r[3] >>

\* Skip 2 and limit 1 on four rows.
PaginatedWitness ==
  /\ IsQueryAnswer
  /\ SkipOf(request) = 2
  /\ LimitOf(request) = 1
  /\ Len(Projected(request)) = 4
  /\ response.instances = << Projected(request)[3] >>

\* The rows a query has before it projects: the ordering stage's rows.
Unprojected(body) ==
  applyOrder(getFilteredInstances(instances, fields, FilterOf(body)), fields,
             OrderOf(body), DirOf(body)).rows

\* C10: for a non-empty list p of column indexes, the answer's schema is
\* fields[p[0]], ..., fields[p[k-1]] and each row is row[p[0]], ...,
\* row[p[k-1]], repeated indexes kept; for an empty list the schema and the
\* rows come back at full width.
ProjectionConsistent ==
  IsQueryAnswer =>
    LET p == ProjectionOf(request, fields)
        rows == Unprojected(request)
        expected ==
          IF p = <<>> THEN rows
          ELSE [r \in 1..Len(rows) |-> [k \in 1..Len(p) |-> rows[r][p[k] + 1]]]
    IN /\ response.features =
            IF p = <<>> THEN fields ELSE [k \in 1..Len(p) |-> fields[p[k] + 1]]
       /\ response.instances =
            limitInstances(skipInstances(Stage(expected, "fresh", instances),
                                         SkipOf(request)), LimitOf(request)).rows
       /\ \A r \in 1..Len(response.instances) :
            Len(response.instances[r]) = Len(response.features)

\* A query projected on "2,0" (l, then x), and one on "1,1" (y twice).
ProjectionConsistentWitness ==
  /\ IsQueryAnswer
  /\ response.instances # <<>>
  /\ \/ /\ ProjectionOf(request, fields) = <<2, 0>>
        /\ response.features = << fields[3], fields[1] >>
        /\ response.instances[1][2].t = "number"
     \/ /\ ProjectionOf(request, fields) = <<1, 1>>
        /\ response.instances[1][1] = response.instances[1][2]

(***************************************************************************)
(* Nominal-value requests on a dataset larger than the answer's limit      *)
(***************************************************************************)
\* The rows of the large source file.
MaxRows == 130

\* JSON.parse of a SOURCE_FILE of MaxRows objects: x counts the rows, and y
\* goes through "a", "Ab", "b" and absent.
LargeSourceFile ==
  Arr([i \in 1..MaxRows |->
         Obj(<< <<"x", Num(i)>> >>
             \o (CASE i % 4 = 1 -> << <<"y", Str(<<97>>)>> >>
                   [] i % 4 = 2 -> << <<"y", Str(<<65, 98>>)>> >>
                   [] i % 4 = 3 -> << <<"y", Str(<<98>>)>> >>
                   [] OTHER -> <<>>))])

\* x lt "100"; not (y = "a"); no filter; a child that is null.
NominalFilters ==
  { Undefined,
    RawLeaf("single", "lt", 0, Str(<<49, 48, 48>>)),
    RawNode("not", << RawLeaf("one", "eq", 1, Str(<<97>>)) >>),
    RawNode("anyof", << Null >>) }

\* Absent; y; "1x", which parseInt reads as 1; x; t; -1; 7.
NominalFeatures ==
  {Undefined, Num(1), Str(<<49, 120>>), Num(0), Num(4), Num(-1), Num(7)}

\* Absent; ""; "A"; "a"; "aB"; "b"; "N"; "c".
NominalQueries ==
  {Undefined, Str(<<>>), Str(<<65>>), Str(<<97>>), Str(<<97, 66>>), Str(<<98>>),
   Str(<<78>>), Str(<<99>>)}

WideNominalBodies ==
  { Body("nominal", f, Undefined, Undefined, Undefined, Undefined, Undefined, c, q) :
      f \in NominalFilters, c \in NominalFeatures, q \in NominalQueries }

\* The server starts on the small or on the large source file.
InitNominal ==
  /\ fields = ConstructFields
  /\ \E file \in {SourceFile, LargeSourceFile} :
       /\ instances = ConstructInstances(file, ConstructFields)
       /\ loaded = ConstructInstances(file, ConstructFields)
  /\ request = NoBody
  /\ response = NoResponse
  /\ san = NoSan
  /\ ev = NoEv

WideNominalValues == \E body \in WideNominalBodies : getNominalValuesHandler(body)

NextNominal == WideNominalValues

SpecNominal == InitNominal /\ [][NextNominal]_vars

IsNominalAnswer == request.handler = "nominal" /\ response.status = 200

\* The stored rows that match the filter and whose value in column c, as a
\* string, starts with the query, case ignored.
NominalMatches(body, c) ==
  SelectSeq(Kept(instances, FilterOf(body)),
            LAMBDA row : startsWith(toLowerCase(JSToString(row[c + 1])),
                                    toLowerCase(OrEmptyString(body.query))))

\* C11: nominalValues answers the empty sequence when the column index is out
\* of range or the column is not nominal, for any filter and query; otherwise
\* the column's values, as strings, of the rows that match the filter and
\* start with the query, case ignored (all for an empty query), in stored
\* order, repeats kept, cut to the first 128.
NominalValuesAnswer ==
  IsNominalAnswer =>
    LET c == FeatureOf(request)
    IN IF c < 0 \/ c >= Len(fields) \/ fields[c + 1].type # "nominal"
         THEN response.values = <<>>
         ELSE response.values =
                [i \in 1..Min(128, Len(NominalMatches(request, c))) |->
                   JSToString(NominalMatches(request, c)[i][c + 1])]

\* More than 128 rows match and 128 values are answered; or a query with a
\* capital letter finds values in both cases, twice the same among them.
NominalValuesAnswerWitness ==
  /\ IsNominalAnswer
  /\ FeatureOf(request) = 1
  /\ \/ /\ Len(NominalMatches(request, 1)) > 128
        /\ Len(response.values) = 128
     \/ /\ request.query = Str(<<65>>)
        /\ Len(response.values) > 2
        /\ response.values[1] = <<97>>
        /\ response.values[2] = <<65, 98>>
        /\ \E i \in 3..Len(response.values) : response.values[i] = <<97>>

(***************************************************************************)
(* Properties of the leaf comparisons                                      *)
(***************************************************************************)
\* Two typed values are the same value: the same type and the same number,
\* string, truth value or timestamp.
SameValue(x, y) == x.t = y.t /\ x.n = y.n /\ x.s = y.s

\* C12: on a leaf with operator eq, a column reference in range and a literal
\* that is not null, a row matches iff its stored value equals the literal
\* coerced to the column's type, for a date the same timestamp; so a row whose
\* value was ingested from the raw value of the literal matches.
EqMatchesCoercedLiteral ==
  (ev.called /\ IsLeaf(ev.query) /\ ev.query.operation = "eq"
   /\ ev.query.left >= 0 /\ ev.query.left < Len(fields) /\ ev.query.right.t # "null") =>
    ev.result = SameValue(ev.instance[ev.query.left + 1],
                          turnInto(ev.query.right, fields[ev.query.left + 1].type))

\* C13: on a leaf, a null literal with any operator but the null check
\* matches every row, also with the empty operator and a column reference out
\* of range; the null check matches exactly the rows whose value in the column
\* is null; the empty operator with a literal that is not null matches no row.
LeafDefaults ==
  (ev.called /\ IsLeaf(ev.query)) =>
    /\ (ev.query.operation # "null" /\ ev.query.right.t = "null") => ev.result
    /\ ev.query.operation = "null" =>
         (ev.result <=> (ev.query.left >= 0 /\ ev.query.left < Len(ev.instance)
                         /\ ev.instance[ev.query.left + 1].t = "null"))
    /\ (ev.query.operation \notin Operations /\ ev.query.right.t # "null") => ~ev.result

\* The null check with a null literal on a row whose value is not null: no
\* match, although the literal is null.
LeafDefaultsWitness ==
  /\ ev.called /\ IsLeaf(ev.query)
  /\ ev.query.operation = "null" /\ ev.query.right.t = "null"
  /\ ev.query.left >= 0 /\ ev.query.left < Len(ev.instance)
  /\ ev.instance[ev.query.left + 1].t # "null"
  /\ ~ev.result

====
